---- MODULE Spec2Model ----
(***************************************************************************)
(* The windowed memory-mapped file buffer of src/src/fileop.c (fbuf_t,     *)
(* fbuf_init, fbuf_free, fbuf_mmap, fbuf_at, fbuf_ptr, fbuf_read) and the  *)
(* byte scanners built on fbuf_at, as compiled with UNIX defined.          *)
(*                                                                         *)
(* Two specifications share the state:                                     *)
(*   Spec      the life cycle of one buffer: open, accesses at positions   *)
(*             around the page and window boundaries, close, with the      *)
(*             mapping call free to fail at every remap;                   *)
(*   ScanSpec  the scanners applied to the arguments drawn by ScanInit, on *)
(*             an open buffer over every short file content, with every    *)
(*             mapping call succeeding.                                    *)
(***************************************************************************)
EXTENDS Integers, Sequences, FiniteSets, TLC

VARIABLES
    file,       \* the file on disk: base filler bytes followed by data
    h,          \* the caller's handle: "null", "open" or "freed" (dangling)
    proc,       \* "run", or "dead" once the process was killed
    fbf,        \* the fields of the fbuf_t the handle points to
    fds,        \* descriptors the process holds open
    live,       \* the process's live file mappings: [addr, off, len]
    ret,        \* the last call: arguments, result, system calls it made
    mapfailed,  \* some mmap call of this buffer has failed
    args        \* the scanner arguments of the caller (ScanSpec)

vars == <<file, h, proc, fbf, fds, live, ret, mapfailed, args>>

-----------------------------------------------------------------------------
(* Bounds of the model. *)

MaxAddr == 2        \* addresses the kernel hands out for mappings
MaxReadLen == 2     \* largest len passed to fbuf_read
MaxLen == 3         \* longest data part of a file in ScanSpec

(* Program constants. *)

NULL == 0
MAP_FAILED == -1
MinPageCount == 8
MinPageSize == 512
DefaultPageSize == 4096
SEGV == -11         \* marker: the load killed the process

W16 == 2^16
IntMax == (2^30 - 1) + 2^30

-----------------------------------------------------------------------------
(* The file: st_size and the bytes a mapping of it shows. *)

Filler(p) == p % 251

FileSize(f) == f.base + Len(f.data)

FileByte(f, p) == IF p < f.base THEN Filler(p) ELSE f.data[p - f.base + 1]

-----------------------------------------------------------------------------
(* int arithmetic of fbf->pagesize * fbf->pagecount: the product of two    *)
(* ints, 0 < a < 2^15 and b >= 0, wrapped to 32 bits two's complement,      *)
(* computed on 16-bit halves.                                              *)

FitsInt(a, b) == b <= IntMax \div a

Mul32(a, b) ==
    LET lo == a * (b % W16)
        hi == (a * (b \div W16) + (lo \div W16)) % W16
    IN  IF hi >= W16 \div 2
        THEN (hi - W16) * W16 + (lo % W16)
        ELSE hi * W16 + (lo % W16)

-----------------------------------------------------------------------------
(* The kernel. *)

Addrs == 1..MaxAddr

FreeAddrs(lv) == Addrs \ {r.addr : r \in lv}

\* The address the kernel places the next mapping at: the lowest one free.
NextAddr(lv) == {a \in FreeAddrs(lv) : \A c \in FreeAddrs(lv) : a <= c}

\* What mmap(hint, len, ..., fd, off) may return: MAP_FAILED for a length
\* that is 0 or, as a size_t, beyond the address space, when no address is
\* free or when the kernel refuses; else the address of the new mapping.
mmap(lv, len) ==
    IF len <= 0 THEN {MAP_FAILED} ELSE {MAP_FAILED} \cup NextAddr(lv)

\* munmap(p, len): releases the mapping at p; EINVAL, releasing nothing, for
\* a length of 0 or an address that is no mapping (MAP_FAILED is not page
\* aligned).
munmap(lv, p, len) == IF len > 0 THEN {r \in lv : r.addr # p} ELSE lv

IsLive(lv, p) == \E r \in lv : r.addr = p

\* The byte a load from p[idx] yields: the file's byte when p is a live
\* mapping that covers idx, else whatever w stands for (SEGV or a stray byte).
Load(f, lv, p, idx, w) ==
    IF \E r \in lv : r.addr = p /\ idx >= 0 /\ idx < r.len
    THEN LET r == CHOOSE r \in lv : r.addr = p IN FileByte(f, r.off + idx)
    ELSE w

Wild == {SEGV, 0, 255}

-----------------------------------------------------------------------------
(* fbuf_init *)

NoBuf ==
    [fd |-> -1, fsize |-> 0, pagecount |-> 0, pagesize |-> 0, mapsize |-> 0,
     mapoff |-> 0, maplen |-> 0, pbyte |-> NULL]

ClampPageCount(pagecount) ==
    IF pagecount < MinPageCount THEN MinPageCount ELSE pagecount

PageSize(sc) == IF sc < MinPageSize THEN DefaultPageSize ELSE sc

MapSize(pagesize, pagecount) == Mul32(pagesize, pagecount)

fbuf_new(f, fd, pagecount, sc) ==
    [fd |-> fd, fsize |-> FileSize(f),
     pagecount |-> ClampPageCount(pagecount),
     pagesize |-> PageSize(sc),
     mapsize |-> MapSize(PageSize(sc), ClampPageCount(pagecount)),
     mapoff |-> 0, maplen |-> 0, pbyte |-> NULL]

-----------------------------------------------------------------------------
(* fbuf_mmap: the window is moved when pos lies outside it. *)

\* Faulty variant: the position file_size taken as valid.
OutOfRange_EndValid(b, pos) == pos < 0 \/ pos > b.fsize

OutOfRange(b, pos) == pos < 0 \/ pos >= b.fsize

\* Faulty variants of the window test: the end of the window taken as inside
\* it, and a test that always asks for a remap.
OutsideWindow_EndInside(b, pos) == pos < b.mapoff \/ pos > b.mapoff + b.maplen

OutsideWindow_Always(b, pos) == TRUE

OutsideWindow(b, pos) == pos < b.mapoff \/ pos >= b.mapoff + b.maplen

\* Faulty variant: the window starts at pos itself, not at its page.
WindowOffset_Unaligned(b, pos) == pos

WindowOffset(b, pos) == (pos \div b.pagesize) * b.pagesize

WindowLength(b, off) ==
    IF b.fsize - off > b.mapsize THEN b.mapsize ELSE b.fsize - off

\* Faulty variant: the old window is never unmapped.
ReleaseWindow_Leak(b, lv) == lv

\* The munmap of the old window, issued whenever pbyte is not NULL.
ReleaseWindow(b, lv) ==
    IF b.pbyte # NULL THEN munmap(lv, b.pbyte, b.maplen) ELSE lv

UnmapCalls(b, lv) ==
    IF b.pbyte # NULL
    THEN <<[addr |-> b.pbyte, len |-> b.maplen, live |-> IsLive(lv, b.pbyte)]>>
    ELSE <<>>

\* The values the mmap call of fbuf_mmap(b, pos) may return; {NULL} when
\* fbuf_mmap makes no mmap call.
MapResults(b, lv, pos) ==
    IF OutOfRange(b, pos) \/ ~OutsideWindow(b, pos)
    THEN {NULL}
    ELSE mmap(ReleaseWindow(b, lv), WindowLength(b, WindowOffset(b, pos)))

\* fbuf_mmap on a non-null handle, res being what its mmap call returns.
fbuf_mmap(b, lv, pos, res) ==
    IF OutOfRange(b, pos)
    THEN [rc |-> -2, fbf |-> b, live |-> lv, maps |-> <<>>, unmaps |-> <<>>]
    ELSE IF OutsideWindow(b, pos)
    THEN LET off == WindowOffset(b, pos)
             len == WindowLength(b, off)
             lv1 == ReleaseWindow(b, lv)
         IN  [rc |-> IF res = MAP_FAILED THEN -3 ELSE 0,
              fbf |-> [b EXCEPT !.mapoff = off, !.maplen = len, !.pbyte = res],
              live |-> IF res = MAP_FAILED
                       THEN lv1
                       ELSE lv1 \cup {[addr |-> res, off |-> off, len |-> len]},
              maps |-> <<[off |-> off, len |-> len, res |-> res]>>,
              unmaps |-> UnmapCalls(b, lv)]
    ELSE [rc |-> 0, fbf |-> b, live |-> lv, maps |-> <<>>, unmaps |-> <<>>]

\* The loads of n bytes from pbyte[idx] on: is one of them outside a live
\* mapping?
WildLoad(m, idx, n) ==
    /\ m.rc = 0
    /\ n > 0
    /\ ~\E r \in m.live :
          r.addr = m.fbf.pbyte /\ idx >= 0 /\ idx + n <= r.len

WildChoices(m, idx, n) == IF WildLoad(m, idx, n) THEN Wild ELSE {0}

\* fbuf_at after its fbuf_mmap call m: -2, or fbf->pbyte[pos - fbf->mapoff].
AtValue(f, m, pos, w) ==
    IF m.rc < 0
    THEN -2
    ELSE Load(f, m.live, m.fbf.pbyte, pos - m.fbf.mapoff, w)

\* fbuf_ptr and fbf_read: the bytes left in the window from pos on.
Avail(b, pos) == b.maplen - (pos - b.mapoff)

\* Faulty variant: the count is not cut to the bytes left in the window.
ReadCount_Uncut(b, pos, len) == len

ReadCount(b, pos, len) == IF len > Avail(b, pos) THEN Avail(b, pos) ELSE len

\* memcpy(pbuf, fbf->pbyte + pos - fbf->mapoff, n)
Copy(f, m, pos, n, w) ==
    [k \in 1..n |-> Load(f, m.live, m.fbf.pbyte, pos - m.fbf.mapoff + k - 1, w)]

-----------------------------------------------------------------------------
(* The calls of the caller. *)

R0 ==
    [op |-> "none", pos |-> 0, len |-> 0, arg |-> 0, rc |-> 0, idx |-> 0,
     plen |-> 0, out |-> <<>>, maps |-> <<>>, unmaps |-> <<>>,
     closes |-> 0, fault |-> "none", was |-> "null", trace |-> <<>>,
     quoted |-> <<>>]

NoArgs == [pos |-> 0, skiplimit |-> 0, pat |-> <<>>]

Call(op, pos, len, rc) ==
    [R0 EXCEPT !.op = op, !.pos = pos, !.len = len, !.rc = rc, !.was = h]

PageCounts == {7, 9, 2^19, 2^20}

SysPageSizes == {-1, 512, 4096}

FileBases == {0, 1, 5000, 40000}

Files == {[base |-> n, data |-> <<>>] : n \in FileBases}

Probes(b) == {-1, 0, 4095, 4096, 4608, 36864, b.fsize - 1, b.fsize}

ReadArgs == {<<1, l>> : l \in 0..MaxReadLen} \cup {<<NULL, 1>>}

\* open fails, kzalloc fails, or the buffer is set up; the int product of
\* line 1097 overflows for a large pagecount, which wraps or traps.
fbuf_init ==
    /\ proc = "run"
    /\ h \in {"null", "freed"}
    /\ \E pagecount \in PageCounts, sc \in SysPageSizes,
          res \in {"ok", "noent", "nomem"} :
          LET c == [Call("init", 0, sc, 0) EXCEPT !.arg = pagecount]
              fits == FitsInt(PageSize(sc), ClampPageCount(pagecount))
          IN  IF res = "ok"
              THEN \E ov \in IF fits THEN {"wrap"} ELSE {"wrap", "trap"} :
                      /\ fbf' = fbuf_new(file, 3, pagecount, sc)
                      /\ fds' = fds \cup {3}
                      /\ h' = "open"
                      /\ proc' = IF ov = "trap" THEN "dead" ELSE "run"
                      /\ ret' = [c EXCEPT !.rc = 1]
                      /\ mapfailed' = FALSE
                      /\ UNCHANGED <<file, live, args>>
              ELSE /\ ret' = [c EXCEPT !.rc = NULL]
                   /\ h' = "null"
                   /\ fbf' = NoBuf
                   /\ mapfailed' = FALSE
                   /\ UNCHANGED <<file, proc, fds, live, args>>

\* fbuf_free: on NULL nothing; on the buffer munmap, close, kfree; on a
\* handle already freed the fields are read from freed memory and the struct
\* is freed twice, which either goes unnoticed or kills the process.
fbuf_free ==
    /\ proc = "run"
    /\ \/ /\ h = "null"
          /\ ret' = Call("free", 0, 0, 0)
          /\ UNCHANGED <<file, h, proc, fbf, fds, live, mapfailed, args>>
       \/ /\ h = "open"
          /\ live' = ReleaseWindow(fbf, live)
          /\ fds' = IF fbf.fd >= 0 THEN fds \ {fbf.fd} ELSE fds
          /\ fbf' = [fbf EXCEPT !.fd = -1]
          /\ h' = "freed"
          /\ ret' = [Call("free", 0, 0, 0) EXCEPT
                        !.unmaps = UnmapCalls(fbf, live),
                        !.closes = IF fbf.fd >= 0 THEN 1 ELSE 0]
          /\ UNCHANGED <<file, proc, mapfailed, args>>
       \/ /\ h = "freed"
          /\ \E out \in {"run", "dead"} :
                /\ live' = ReleaseWindow(fbf, live)
                /\ fds' = IF fbf.fd >= 0 THEN fds \ {fbf.fd} ELSE fds
                /\ proc' = out
                /\ ret' = [Call("free", 0, 0, 0) EXCEPT
                              !.unmaps = UnmapCalls(fbf, live),
                              !.closes = IF fbf.fd >= 0 THEN 1 ELSE 0,
                              !.fault = "uaf"]
          /\ UNCHANGED <<file, h, fbf, mapfailed, args>>

fbuf_at ==
    /\ proc = "run"
    /\ h \in {"null", "open"}
    /\ \E pos \in Probes(fbf) :
          IF h = "null"
          THEN /\ ret' = Call("at", pos, 0, -1)
               /\ UNCHANGED <<file, h, proc, fbf, fds, live, mapfailed, args>>
          ELSE \E res \in MapResults(fbf, live, pos) :
                  LET m == fbuf_mmap(fbf, live, pos, res)
                      idx == pos - m.fbf.mapoff
                  IN  \E w \in WildChoices(m, idx, 1) :
                         LET v == AtValue(file, m, pos, w)
                         IN  /\ fbf' = m.fbf
                             /\ live' = m.live
                             /\ mapfailed' = (mapfailed \/ m.rc = -3)
                             /\ proc' = IF v = SEGV THEN "dead" ELSE "run"
                             /\ ret' = [Call("at", pos, 0, v) EXCEPT
                                           !.maps = m.maps,
                                           !.unmaps = m.unmaps,
                                           !.fault = IF WildLoad(m, idx, 1)
                                                     THEN "wild" ELSE "none"]
                             /\ UNCHANGED <<file, h, fds, args>>

fbuf_ptr ==
    /\ proc = "run"
    /\ h \in {"null", "open"}
    /\ \E pos \in Probes(fbf) :
          IF h = "null"
          THEN /\ ret' = Call("ptr", pos, 0, NULL)
               /\ UNCHANGED <<file, h, proc, fbf, fds, live, mapfailed, args>>
          ELSE \E res \in MapResults(fbf, live, pos) :
                  LET m == fbuf_mmap(fbf, live, pos, res)
                  IN  /\ fbf' = m.fbf
                      /\ live' = m.live
                      /\ mapfailed' = (mapfailed \/ m.rc = -3)
                      /\ ret' = IF m.rc < 0
                                THEN [Call("ptr", pos, 0, NULL) EXCEPT
                                         !.maps = m.maps, !.unmaps = m.unmaps]
                                ELSE [Call("ptr", pos, 0, m.fbf.pbyte) EXCEPT
                                         !.idx = pos - m.fbf.mapoff,
                                         !.plen = Avail(m.fbf, pos),
                                         !.maps = m.maps, !.unmaps = m.unmaps]
                      /\ UNCHANGED <<file, h, proc, fds, args>>

fbuf_read ==
    /\ proc = "run"
    /\ h \in {"null", "open"}
    /\ \E pos \in Probes(fbf), a \in ReadArgs :
          LET pbuf == a[1]
              len == a[2]
              c == [Call("read", pos, len, -1) EXCEPT !.arg = pbuf]
          IN  IF h = "null" \/ pbuf = NULL \/ len <= 0
              THEN /\ ret' = c
                   /\ UNCHANGED <<file, h, proc, fbf, fds, live, mapfailed, args>>
              ELSE \E res \in MapResults(fbf, live, pos) :
                      LET m == fbuf_mmap(fbf, live, pos, res)
                          idx == pos - m.fbf.mapoff
                          n == IF m.rc < 0 THEN 0 ELSE ReadCount(m.fbf, pos, len)
                      IN  \E w \in WildChoices(m, idx, n) :
                             LET wild == WildLoad(m, idx, n)
                                 killed == wild /\ w = SEGV
                             IN  /\ fbf' = m.fbf
                                 /\ live' = m.live
                                 /\ mapfailed' = (mapfailed \/ m.rc = -3)
                                 /\ proc' = IF killed THEN "dead" ELSE "run"
                                 /\ ret' = [c EXCEPT
                                       !.rc = IF m.rc < 0 THEN -2
                                              ELSE IF killed THEN SEGV ELSE n,
                                       !.out = IF m.rc < 0 \/ killed THEN <<>>
                                               ELSE Copy(file, m, pos, n, w),
                                       !.maps = m.maps,
                                       !.unmaps = m.unmaps,
                                       !.fault = IF wild THEN "wild" ELSE "none"]
                                 /\ UNCHANGED <<file, h, fds, args>>

-----------------------------------------------------------------------------
(* The scanners.  Each reads the file through fbuf_at, which moves the     *)
(* window as the scan goes; here every mapping call succeeds.              *)

\* What the mmap call of fbuf_mmap(b, pos) returns when the kernel grants it.
MapGranted(b, lv, pos) ==
    LET rs == MapResults(b, lv, pos) \ {MAP_FAILED}
    IN  IF rs = {} THEN MAP_FAILED ELSE CHOOSE a \in rs : TRUE

\* fbuf_at(fbf, pos) as a scanner calls it: the byte, or -2, and the buffer
\* and the mappings it leaves.
scan_at(f, b, lv, pos) ==
    LET m == fbuf_mmap(b, lv, pos, MapGranted(b, lv, pos))
    IN  [ch |-> AtValue(f, m, pos, SEGV), fbf |-> m.fbf, live |-> m.live]

\* Faulty variant: skiplimit is ignored.
ScanBound_NoLimit(b, pos, skiplimit) == b.fsize - pos

\* fsize = fbf->fsize - pos, cut to skiplimit when that is not negative.
ScanBound(b, pos, skiplimit) ==
    IF skiplimit >= 0 /\ skiplimit < b.fsize - pos
    THEN skiplimit
    ELSE b.fsize - pos

\* for (j = 0; j < patlen; j++) if (pat[j] == fch) ...
InPat(pat, fch) == \E j \in 1..Len(pat) : pat[j] = fch

\* The start of a backward scan: pos, or the last byte when pos is beyond it.
ClampStart(b, pos) == IF pos >= b.fsize THEN b.fsize - 1 ELSE pos

\* One pass of a scanner's loop that reads the byte at index i, before the
\* passes of r.
Pass(i, r) == [r EXCEPT !.trace = <<i>> \o @]

\* A scanner's return: the position, the buffer and mappings it leaves, the
\* index at each pass of its loop, and the <<index, length>> of each quoted
\* run it measured.
Return(rc, b, lv) ==
    [rc |-> rc, fbf |-> b, live |-> lv, trace |-> <<>>, quoted |-> <<>>]

Scanned(op, r) ==
    [Call(op, args.pos, args.skiplimit, r.rc) EXCEPT
        !.trace = r.trace, !.quoted = r.quoted]

RECURSIVE skip_to_loop(_, _, _, _, _, _, _)
skip_to_loop(f, b, lv, pos, fsize, pat, i) ==
    IF i < fsize
    THEN LET a == scan_at(f, b, lv, pos + i)
         IN  IF a.ch < 0
             THEN Pass(i, Return(pos + i, a.fbf, a.live))
             ELSE IF InPat(pat, a.ch)
             THEN Pass(i, Return(pos + i, a.fbf, a.live))
             ELSE Pass(i, skip_to_loop(f, a.fbf, a.live, pos, fsize, pat, i + 1))
    ELSE Return(pos + i, b, lv)

skip_to(f, b, lv, pos, skiplimit, pat) ==
    IF Len(pat) <= 0
    THEN Return(pos, b, lv)
    ELSE skip_to_loop(f, b, lv, pos, ScanBound(b, pos, skiplimit), pat, 0)

fbuf_skip_to ==
    /\ proc = "run"
    /\ h = "open"
    /\ LET r == skip_to(file, fbf, live, args.pos, args.skiplimit, args.pat)
       IN  /\ fbf' = r.fbf
           /\ live' = r.live
           /\ ret' = Scanned("skip_to", r)
    /\ UNCHANGED <<file, h, proc, fds, mapfailed, args>>

\* for (i = 0; i <= pos; i++), left at skiplimit when that is not negative.
RECURSIVE rskip_to_loop(_, _, _, _, _, _, _)
rskip_to_loop(f, b, lv, pos, skiplimit, pat, i) ==
    IF i <= pos /\ ~(skiplimit >= 0 /\ i >= skiplimit)
    THEN LET a == scan_at(f, b, lv, pos - i)
         IN  IF a.ch < 0
             THEN Pass(i, Return(pos - i, a.fbf, a.live))
             ELSE IF InPat(pat, a.ch)
             THEN Pass(i, Return(pos - i, a.fbf, a.live))
             ELSE Pass(i, rskip_to_loop(f, a.fbf, a.live, pos, skiplimit, pat, i + 1))
    ELSE Return(pos - i, b, lv)

rskip_to(f, b, lv, pos, skiplimit, pat) ==
    IF Len(pat) <= 0 THEN Return(pos, b, lv)
    ELSE IF pos < 0 THEN Return(0, b, lv)
    ELSE rskip_to_loop(f, b, lv, ClampStart(b, pos), skiplimit, pat, 0)

fbuf_rskip_to ==
    /\ proc = "run"
    /\ h = "open"
    /\ LET r == rskip_to(file, fbf, live, args.pos, args.skiplimit, args.pat)
       IN  /\ fbf' = r.fbf
           /\ live' = r.live
           /\ ret' = Scanned("rskip_to", r)
    /\ UNCHANGED <<file, h, proc, fds, mapfailed, args>>

\* for (i = 0; i < fsize; i++): the first byte that is not in pat ends it.
RECURSIVE skip_over_loop(_, _, _, _, _, _, _)
skip_over_loop(f, b, lv, pos, fsize, pat, i) ==
    IF i < fsize
    THEN LET a == scan_at(f, b, lv, pos + i)
         IN  IF a.ch < 0
             THEN Pass(i, Return(pos + i, a.fbf, a.live))
             ELSE IF ~InPat(pat, a.ch)
             THEN Pass(i, Return(pos + i, a.fbf, a.live))
             ELSE Pass(i, skip_over_loop(f, a.fbf, a.live, pos, fsize, pat, i + 1))
    ELSE Return(pos + i, b, lv)

skip_over(f, b, lv, pos, skiplimit, pat) ==
    IF Len(pat) <= 0
    THEN Return(pos, b, lv)
    ELSE skip_over_loop(f, b, lv, pos, ScanBound(b, pos, skiplimit), pat, 0)

fbuf_skip_over ==
    /\ proc = "run"
    /\ h = "open"
    /\ LET r == skip_over(file, fbf, live, args.pos, args.skiplimit, args.pat)
       IN  /\ fbf' = r.fbf
           /\ live' = r.live
           /\ ret' = Scanned("skip_over", r)
    /\ UNCHANGED <<file, h, proc, fds, mapfailed, args>>

RECURSIVE rskip_over_loop(_, _, _, _, _, _, _)
rskip_over_loop(f, b, lv, pos, skiplimit, pat, i) ==
    IF i <= pos /\ ~(skiplimit >= 0 /\ i >= skiplimit)
    THEN LET a == scan_at(f, b, lv, pos - i)
         IN  IF a.ch < 0
             THEN Pass(i, Return(pos - i, a.fbf, a.live))
             ELSE IF ~InPat(pat, a.ch)
             THEN Pass(i, Return(pos - i, a.fbf, a.live))
             ELSE Pass(i, rskip_over_loop(f, a.fbf, a.live, pos, skiplimit, pat,
                                          i + 1))
    ELSE Return(pos - i, b, lv)

\* if (pos <= 0) return pos: a scan from the first byte reads nothing.
rskip_over(f, b, lv, pos, skiplimit, pat) ==
    IF Len(pat) <= 0 THEN Return(pos, b, lv)
    ELSE IF pos <= 0 THEN Return(pos, b, lv)
    ELSE rskip_over_loop(f, b, lv, ClampStart(b, pos), skiplimit, pat, 0)

fbuf_rskip_over ==
    /\ proc = "run"
    /\ h = "open"
    /\ LET r == rskip_over(file, fbf, live, args.pos, args.skiplimit, args.pat)
       IN  /\ fbf' = r.fbf
           /\ live' = r.live
           /\ ret' = Scanned("rskip_over", r)
    /\ UNCHANGED <<file, h, proc, fds, mapfailed, args>>

\* for (i = 0; i < fsize; i++): a backslash takes the index one further
\* before the loop's own increment.
RECURSIVE skip_esc_to_loop(_, _, _, _, _, _, _)
skip_esc_to_loop(f, b, lv, pos, fsize, pat, i) ==
    IF i < fsize
    THEN LET a == scan_at(f, b, lv, pos + i)
         IN  IF a.ch < 0
             THEN Pass(i, Return(pos + i, a.fbf, a.live))
             ELSE IF a.ch = 92
             THEN Pass(i, skip_esc_to_loop(f, a.fbf, a.live, pos, fsize, pat, i + 2))
             ELSE IF InPat(pat, a.ch)
             THEN Pass(i, Return(pos + i, a.fbf, a.live))
             ELSE Pass(i, skip_esc_to_loop(f, a.fbf, a.live, pos, fsize, pat, i + 1))
    ELSE Return(pos + i, b, lv)

skip_esc_to(f, b, lv, pos, skiplimit, pat) ==
    IF Len(pat) <= 0
    THEN Return(pos, b, lv)
    ELSE skip_esc_to_loop(f, b, lv, pos, ScanBound(b, pos, skiplimit), pat, 0)

fbuf_skip_esc_to ==
    /\ proc = "run"
    /\ h = "open"
    /\ LET r == skip_esc_to(file, fbf, live, args.pos, args.skiplimit, args.pat)
       IN  /\ fbf' = r.fbf
           /\ live' = r.live
           /\ ret' = Scanned("skip_esc_to", r)
    /\ UNCHANGED <<file, h, proc, fds, mapfailed, args>>

\* quote != '"' && quote != '\''
IsQuote(ch) == ch = 34 \/ ch = 39

\* Faulty variant: when the loop runs out, the index is returned, not 1.
RECURSIVE quotedstrlen_loop_Index(_, _, _, _, _, _, _)
quotedstrlen_loop_Index(f, b, lv, pos, skiplimit, quote, i) ==
    IF i < skiplimit /\ i < b.fsize - pos
    THEN LET a == scan_at(f, b, lv, pos + i)
         IN  IF a.ch < 0
             THEN Pass(i, Return(i, a.fbf, a.live))
             ELSE IF a.ch = 92
             THEN Pass(i, quotedstrlen_loop_Index(f, a.fbf, a.live, pos,
                                                  skiplimit, quote, i + 2))
             ELSE IF a.ch = quote
             THEN Pass(i, Return(i + 1, a.fbf, a.live))
             ELSE Pass(i, quotedstrlen_loop_Index(f, a.fbf, a.live, pos,
                                                  skiplimit, quote, i + 1))
    ELSE Return(i, b, lv)

\* for (i = 1; i < skiplimit && i < fsize - pos; i++): the length through the
\* closing quote, the index where fbuf_at fails, or 1 when the loop runs out.
RECURSIVE quotedstrlen_loop(_, _, _, _, _, _, _)
quotedstrlen_loop(f, b, lv, pos, skiplimit, quote, i) ==
    IF i < skiplimit /\ i < b.fsize - pos
    THEN LET a == scan_at(f, b, lv, pos + i)
         IN  IF a.ch < 0
             THEN Pass(i, Return(i, a.fbf, a.live))
             ELSE IF a.ch = 92
             THEN Pass(i, quotedstrlen_loop(f, a.fbf, a.live, pos, skiplimit,
                                            quote, i + 2))
             ELSE IF a.ch = quote
             THEN Pass(i, Return(i + 1, a.fbf, a.live))
             ELSE Pass(i, quotedstrlen_loop(f, a.fbf, a.live, pos, skiplimit,
                                            quote, i + 1))
    ELSE Return(1, b, lv)

quotedstrlen(f, b, lv, pos, skiplimit) ==
    IF pos >= b.fsize
    THEN Return(0, b, lv)
    ELSE LET a == scan_at(f, b, lv, pos)
         IN  IF ~IsQuote(a.ch)
             THEN Return(0, a.fbf, a.live)
             ELSE quotedstrlen_loop(f, a.fbf, a.live, pos, skiplimit, a.ch, 1)

fbuf_quotedstrlen ==
    /\ proc = "run"
    /\ h = "open"
    /\ LET r == quotedstrlen(file, fbf, live, args.pos, args.skiplimit)
       IN  /\ fbf' = r.fbf
           /\ live' = r.live
           /\ ret' = Scanned("quotedstrlen", r)
    /\ UNCHANGED <<file, h, proc, fds, mapfailed, args>>

\* A quoted run of length qlen measured with the index at i, before the
\* passes of r.
Quoted(i, qlen, r) == [r EXCEPT !.quoted = <<(<<i, qlen>>)>> \o @]

\* for (i = 0; i < fsize; ): a backslash that is not the last byte of the
\* bound takes two bytes, a delimiter ends the scan, a quote takes the length
\* fbuf_quotedstrlen gives for it, any other byte takes one.
RECURSIVE skip_quote_to_loop(_, _, _, _, _, _, _)
skip_quote_to_loop(f, b, lv, pos, fsize, pat, i) ==
    IF i < fsize
    THEN LET a == scan_at(f, b, lv, pos + i)
         IN  IF a.ch < 0
             THEN Pass(i, Return(pos + i, a.fbf, a.live))
             ELSE IF a.ch = 92 /\ i + 1 < fsize
             THEN Pass(i, skip_quote_to_loop(f, a.fbf, a.live, pos, fsize, pat,
                                             i + 2))
             ELSE IF InPat(pat, a.ch)
             THEN Pass(i, Return(pos + i, a.fbf, a.live))
             ELSE IF IsQuote(a.ch)
             THEN LET q == quotedstrlen(f, a.fbf, a.live, pos + i, fsize - i)
                  IN  Pass(i, Quoted(i, q.rc,
                          skip_quote_to_loop(f, q.fbf, q.live, pos, fsize, pat,
                                             i + q.rc)))
             ELSE Pass(i, skip_quote_to_loop(f, a.fbf, a.live, pos, fsize, pat,
                                             i + 1))
    ELSE Return(pos + i, b, lv)

skip_quote_to(f, b, lv, pos, skiplimit, pat) ==
    IF Len(pat) <= 0
    THEN Return(pos, b, lv)
    ELSE skip_quote_to_loop(f, b, lv, pos, ScanBound(b, pos, skiplimit), pat, 0)

fbuf_skip_quote_to ==
    /\ proc = "run"
    /\ h = "open"
    /\ LET r == skip_quote_to(file, fbf, live, args.pos, args.skiplimit, args.pat)
       IN  /\ fbf' = r.fbf
           /\ live' = r.live
           /\ ret' = Scanned("skip_quote_to", r)
    /\ UNCHANGED <<file, h, proc, fds, mapfailed, args>>

Alphabet == {34, 39, 44, 92, 97}

Datas == UNION {[1..n -> Alphabet] : n \in 0..MaxLen}

ScanBases == {0, 4095}

\* Data at the start of the file, and shorter data across the end of the
\* first window.
ScanFiles ==
    {f \in [base : ScanBases, data : Datas] : f.base = 0 \/ Len(f.data) < MaxLen}

Pats == {<<>>, <<44>>, <<34, 44, 92>>}

ScanArgs(f) ==
    [pos : (f.base - 1)..(FileSize(f) + 1),
     skiplimit : -1..(MaxLen + 1),
     pat : Pats]

-----------------------------------------------------------------------------

Init ==
    /\ file \in Files
    /\ h = "null"
    /\ proc = "run"
    /\ fbf = NoBuf
    /\ fds = {}
    /\ live = {}
    /\ ret = R0
    /\ mapfailed = FALSE
    /\ args = NoArgs

Next == fbuf_init \/ fbuf_free \/ fbuf_at \/ fbuf_ptr \/ fbuf_read

Spec == Init /\ [][Next]_vars

\* The buffer at the start of a scan, on a file of 512-byte pages: as
\* fbuf_init leaves it when the data lies at the start of the file; after a
\* fbuf_at(0), which maps the first window, when the data lies across the end
\* of that window.
ScanStart(f) ==
    LET b == fbuf_new(f, 3, MinPageCount, MinPageSize)
    IN  IF f.base = 0
        THEN [fbf |-> b, live |-> {}]
        ELSE scan_at(f, b, {}, 0)

ScanInit ==
    /\ file \in ScanFiles
    /\ h = "open"
    /\ proc = "run"
    /\ fbf = ScanStart(file).fbf
    /\ live = ScanStart(file).live
    /\ fds = {3}
    /\ ret = R0
    /\ mapfailed = FALSE
    /\ args \in ScanArgs(file)

ScanNext ==
    \/ fbuf_skip_to
    \/ fbuf_rskip_to
    \/ fbuf_skip_over
    \/ fbuf_rskip_over
    \/ fbuf_skip_esc_to
    \/ fbuf_quotedstrlen
    \/ fbuf_skip_quote_to

ScanSpec == ScanInit /\ [][ScanNext]_vars

-----------------------------------------------------------------------------
(* Properties of the buffer's life cycle, checked under Spec. *)

Access == {"at", "ptr", "read"}

Min(a, b) == IF a < b THEN a ELSE b

\* The buffer's window fields name a live mapping of exactly that range.
WindowIsMapped ==
    \E r \in live :
        r.addr = fbf.pbyte /\ r.off = fbf.mapoff /\ r.len = fbf.maplen

\* C1: once a mapping call has failed, the open buffer describes no window
\* that an access would use without mapping it first (every position the
\* fields mapoff, maplen cover is backed by a live mapping), and no munmap of
\* a later remap or close is handed a region that is not mapped.
C1_FailClosed ==
    mapfailed =>
        /\ (h = "open" /\ fbf.maplen > 0) => WindowIsMapped
        /\ ret.fault # "uaf" =>
               \A k \in 1..Len(ret.unmaps) : ret.unmaps[k].live

\* C2: with every mapping call so far successful, byte_at(p) for p in
\* [0, file_size) is the file's byte at offset p, whatever the window was
\* before the call.
C2_ByteAtIsFileByte ==
    (ret.op = "at" /\ ret.was = "open" /\ ~mapfailed
        /\ ret.pos >= 0 /\ ret.pos < fbf.fsize)
    => ret.rc = FileByte(file, ret.pos)

C2_Witness ==
    /\ ret.op = "at" /\ ret.was = "open" /\ ~mapfailed
    /\ ret.pos >= 0 /\ ret.pos < fbf.fsize
    /\ Len(ret.unmaps) = 1 /\ ret.unmaps[1].live
    /\ fbf.mapoff > 0
    /\ ret.rc = FileByte(file, ret.pos)

\* C3: an access at a position inside [mapoff, mapoff + maplen) leaves
\* mapoff, maplen and the mapping as they are and makes no mmap or munmap
\* call.
C3_NoRemapInsideWindow ==
    [][(/\ h = "open" /\ proc = "run"
        /\ ret'.op \in Access
        /\ ret'.pos >= 0 /\ ret'.pos < fbf.fsize
        /\ ret'.pos >= fbf.mapoff /\ ret'.pos < fbf.mapoff + fbf.maplen)
       => (/\ fbf' = fbf
           /\ live' = live
           /\ ret'.maps = <<>>
           /\ ret'.unmaps = <<>>)]_vars

C3_Witness ==
    /\ h = "open" /\ ret.was = "open" /\ ret.op \in Access
    /\ ret.pos > fbf.mapoff /\ ret.pos < fbf.mapoff + fbf.maplen
    /\ fbf.mapoff > 0
    /\ WindowIsMapped
    /\ ret.maps = <<>>

\* C4: at most one mapping is alive at any time, and none after close or
\* before open.
C4_AtMostOneMapping ==
    /\ Cardinality(live) <= 1
    /\ h \in {"null", "freed"} => live = {}

C4_Witness ==
    /\ h = "open"
    /\ Len(ret.maps) = 1 /\ ret.maps[1].res # MAP_FAILED
    /\ Len(ret.unmaps) = 1 /\ ret.unmaps[1].live
    /\ Cardinality(live) = 1

\* C5: close on a handle already closed, or on a null handle, does nothing:
\* no freed state is read, no munmap and no close call is made, and the
\* process survives.
C5_CloseIdempotent ==
    (ret.op = "free" /\ ret.was \in {"null", "freed"})
    => (/\ ret.fault = "none"
        /\ ret.unmaps = <<>>
        /\ ret.closes = 0
        /\ proc = "run")

\* C6: after open the window capacity is page_size * max(page_count, 8) and
\* positive, and no mapping call asks for a length <= 0.
C6_WindowCapacity ==
    /\ (ret.op = "init" /\ ret.rc # NULL) =>
           fbf.pagecount = (IF ret.arg < 8 THEN 8 ELSE ret.arg)
    /\ h = "open" =>
           /\ fbf.mapsize > 0
           /\ fbf.mapsize % fbf.pagesize = 0
           /\ fbf.mapsize \div fbf.pagesize = fbf.pagecount
    /\ \A k \in 1..Len(ret.maps) : ret.maps[k].len > 0

\* C7: window_offset is a multiple of page_size in every state of an open
\* buffer.
C7_OffsetAligned == h = "open" => fbf.mapoff % fbf.pagesize = 0

C7_Witness ==
    /\ h = "open"
    /\ Len(ret.maps) = 1
    /\ ret.pos % fbf.pagesize # 0
    /\ fbf.mapoff > 0
    /\ fbf.mapoff % fbf.pagesize = 0

\* C8: an access at a position outside [0, file_size) fails and leaves
\* mapoff, maplen and the mapping as they are, with no mmap or munmap call;
\* on a file of length 0 that is every access.
C8_OutOfRangeFails ==
    [][(/\ h = "open" /\ proc = "run"
        /\ ret'.op \in Access
        /\ (ret'.pos < 0 \/ ret'.pos >= fbf.fsize))
       => (/\ IF ret'.op = "ptr" THEN ret'.rc = NULL ELSE ret'.rc < 0
           /\ fbf' = fbf
           /\ live' = live
           /\ proc' = "run"
           /\ ret'.maps = <<>>
           /\ ret'.unmaps = <<>>)]_vars

C8_Witness ==
    /\ h = "open" /\ ret.was = "open"
    /\ fbf.fsize = 0
    /\ ret.op = "at" /\ ret.pos = 0 /\ ret.rc = -2

C8_WitnessBeyond ==
    /\ h = "open" /\ ret.was = "open"
    /\ ret.op = "at" /\ ret.pos = fbf.fsize /\ ret.rc = -2
    /\ WindowIsMapped

\* C9: a read of len > 0 at a valid position returns min(len, bytes left in
\* the window that holds pos) bytes of that window, the file's bytes from pos
\* on, after at most one remap, and is no error unless the mapping call
\* failed; fbuf_ptr reports the same number of bytes left.
C9_ReadTruncates ==
    LET left == fbf.mapoff + fbf.maplen - ret.pos
    IN  /\ (ret.op = "read" /\ ret.rc >= 0) =>
               /\ ret.pos >= fbf.mapoff /\ left > 0
               /\ ret.rc = Min(ret.len, left)
               /\ Len(ret.out) = ret.rc
               /\ Len(ret.maps) <= 1
               /\ ret.fault = "none" =>
                      \A k \in 1..ret.rc :
                          ret.out[k] = FileByte(file, ret.pos + k - 1)
        /\ (/\ ret.op = "read" /\ ret.was = "open"
            /\ ret.arg # NULL /\ ret.len > 0
            /\ ret.pos >= 0 /\ ret.pos < fbf.fsize
            /\ \A k \in 1..Len(ret.maps) : ret.maps[k].res # MAP_FAILED
            /\ ret.rc # SEGV)
           => ret.rc >= 1
        /\ (ret.op = "ptr" /\ ret.rc # NULL) =>
               /\ ret.plen = left
               /\ ret.idx = ret.pos - fbf.mapoff
               /\ Len(ret.maps) <= 1

C9_Witness ==
    /\ ret.op = "read" /\ ret.fault = "none"
    /\ ret.rc >= 1 /\ ret.rc < ret.len
    /\ ret.pos + ret.rc = fbf.mapoff + fbf.maplen
    /\ ret.pos + ret.rc < fbf.fsize

-----------------------------------------------------------------------------
(* Properties of the scanners, checked under ScanSpec. *)

PatSet == {args.pat[j] : j \in 1..Len(args.pat)}

\* The bound of a forward scan: the bytes from pos to the end of the file,
\* cut to skiplimit when that is not negative.
FwdBound ==
    IF args.skiplimit < 0
    THEN fbf.fsize - args.pos
    ELSE Min(args.skiplimit, fbf.fsize - args.pos)

\* Positions of [pos, pos + bound) that hold a byte of the set.
FwdHits ==
    {p \in args.pos..(args.pos + FwdBound - 1) : FileByte(file, p) \in PatSet}

\* C10: scan_to_set from a start in [0, file_size] with a non-empty set
\* returns the smallest position of [start, start + bound) whose byte is in
\* the set, and start + bound when there is none.
C10_ScanToSet ==
    (/\ ret.op = "skip_to"
     /\ PatSet # {}
     /\ args.pos >= 0 /\ args.pos <= fbf.fsize)
    => IF FwdHits = {}
       THEN ret.rc = args.pos + FwdBound
       ELSE ret.rc \in FwdHits /\ \A p \in FwdHits : ret.rc <= p

\* A delimiter beyond the bound is passed over: the scan stops at the bound,
\* on a byte that is no delimiter, though a delimiter follows in the file.
C10_Witness ==
    /\ ret.op = "skip_to"
    /\ args.pos >= 0
    /\ args.skiplimit >= 1
    /\ ret.rc = args.pos + args.skiplimit
    /\ ret.rc + 1 < fbf.fsize
    /\ FileByte(file, ret.rc) \notin PatSet
    /\ FileByte(file, ret.rc + 1) \in PatSet

\* A match found past the start, in the window after the one the scan began in.
C10_WitnessFound ==
    /\ ret.op = "skip_to"
    /\ ret.rc > args.pos
    /\ ret.rc < args.pos + FwdBound
    /\ FileByte(file, ret.rc) \in PatSet
    /\ args.pos < fbf.mapoff

\* The positions the escape-aware scan meets: the start, and after a met
\* position the next one, or the one after that when the met byte is a
\* backslash.
RECURSIVE EscMet(_)
EscMet(p) ==
    IF p <= args.pos
    THEN p = args.pos
    ELSE \/ EscMet(p - 1) /\ FileByte(file, p - 1) # 92
         \/ p - 2 >= args.pos /\ EscMet(p - 2) /\ FileByte(file, p - 2) = 92

\* Positions of [pos, pos + bound) whose byte is in the set and is neither a
\* backslash nor the byte that follows a backslash the scan met.
EscHits ==
    {p \in FwdHits : FileByte(file, p) # 92 /\ EscMet(p)}

\* C11: scan_to_set_escape_aware from a start in [0, file_size] returns the
\* first position of [start, start + bound) whose byte is in the set and is
\* neither a backslash nor escaped by one, and exactly start + bound when
\* there is none, also when the last byte inside the bound is a backslash.
C11_EscapeAware ==
    (/\ ret.op = "skip_esc_to"
     /\ PatSet # {}
     /\ args.pos >= 0 /\ args.pos <= fbf.fsize)
    => IF EscHits = {}
       THEN ret.rc = args.pos + FwdBound
       ELSE ret.rc \in EscHits /\ \A p \in EscHits : ret.rc <= p

\* The bytes a quote-aware scan may look at: [pos, BoundEnd).
BoundEnd == args.pos + FwdBound

\* The length of the quoted run that opens at s with quote q, through its
\* closing quote, scanning from p and not beyond end: a backslash escapes the
\* byte after it.  0 when no closing quote lies before end.
RECURSIVE RunLength(_, _, _, _)
RunLength(q, s, p, end) ==
    IF p >= end THEN 0
    ELSE IF FileByte(file, p) = 92 THEN RunLength(q, s, p + 2, end)
    ELSE IF FileByte(file, p) = q THEN p - s + 1
    ELSE RunLength(q, s, p + 1, end)

\* Whether the scan that stands at p, outside every protected region, meets
\* t outside every protected region: the byte after a backslash is
\* protected, and so are the bytes after an opening quote through the
\* closing quote, or to the end of the bound when no closing quote lies
\* within it.
RECURSIVE Unprotected(_, _)
Unprotected(p, t) ==
    IF p >= BoundEnd \/ p > t THEN FALSE
    ELSE IF p = t THEN TRUE
    ELSE IF FileByte(file, p) = 92 THEN Unprotected(p + 2, t)
    ELSE IF FileByte(file, p) \in {34, 39}
    THEN LET n == RunLength(FileByte(file, p), p, p + 1, BoundEnd)
         IN  IF n > 0 THEN Unprotected(p + n, t) ELSE FALSE
    ELSE Unprotected(p + 1, t)

\* C12: scan_to_set_quote_aware never stops on a delimiter inside a protected
\* region: the position returned, when it lies inside the bound and holds a
\* byte of the set, is neither the byte after a backslash met by the scan nor
\* a byte of a quoted run, closed or cut by the bound.
C12_NeverInsideProtected ==
    (/\ ret.op = "skip_quote_to"
     /\ PatSet # {}
     /\ args.pos >= 0 /\ args.pos <= fbf.fsize
     /\ ret.rc < BoundEnd
     /\ FileByte(file, ret.rc) \in PatSet)
    => Unprotected(args.pos, ret.rc)

\* The bound of quoted_run_length: the bytes from pos to the end of the file,
\* cut to skiplimit when that is not negative.
QuoteBound == FwdBound

\* The length, through its closing quote, of the run that opens at pos; 0 when
\* the bound is exhausted first.
ClosedLength ==
    RunLength(FileByte(file, args.pos), args.pos, args.pos + 1,
              args.pos + QuoteBound)

StartsAtQuote ==
    /\ args.pos >= 0 /\ args.pos < fbf.fsize
    /\ FileByte(file, args.pos) \in {34, 39}

C14_UnterminatedRun ==
    (/\ ret.op = "quotedstrlen"
     /\ StartsAtQuote
     /\ QuoteBound >= 1
     /\ ClosedLength = 0)
    => ret.rc = QuoteBound

\* The bound of a backward scan: the bytes from pos down to the start of the
\* file, cut to skiplimit when that is not negative.
RevBound ==
    IF args.skiplimit < 0
    THEN args.pos + 1
    ELSE Min(args.skiplimit, args.pos + 1)

\* Positions of (pos - bound, pos] that hold a byte outside the set.
RevMisses ==
    {p \in (args.pos - RevBound + 1)..args.pos : FileByte(file, p) \notin PatSet}

\* C15: rscan_over_set from a start in [0, file_size) with a non-empty set
\* returns the largest position of (start - bound, start] whose byte is not
\* in the set, and start - bound when there is none, from start 0 as from
\* any other start.
C15_RScanOverSet ==
    (/\ ret.op = "rskip_over"
     /\ PatSet # {}
     /\ args.pos >= 0 /\ args.pos < fbf.fsize)
    => IF RevMisses = {}
       THEN ret.rc = args.pos - RevBound
       ELSE ret.rc \in RevMisses /\ \A p \in RevMisses : ret.rc >= p

ForwardScans == {"skip_to", "skip_over", "skip_quote_to", "skip_esc_to"}

BackwardScans == {"rskip_to", "rskip_over"}

\* The bound of the scan made: of a forward scan and of quoted_run_length
\* the bytes from pos to the end of the file, of a backward scan the bytes
\* from pos, or from the last byte when pos lies beyond it, down to the start
\* of the file; each cut to skiplimit when that is not negative.
IterBound ==
    IF ret.op \in BackwardScans
    THEN LET start == IF args.pos >= fbf.fsize THEN fbf.fsize - 1 ELSE args.pos
         IN  IF args.skiplimit < 0 THEN start + 1
             ELSE Min(args.skiplimit, start + 1)
    ELSE FwdBound

\* C16: every scan ends, having made at most bound passes of its loop, each
\* with the index at least 1 beyond that of the pass before; in
\* scan_to_set_quote_aware every quoted run is measured as at least 1 byte
\* and takes the index no further than the bound, where the scan ends.
C16_ScansTerminate ==
    ret.op \in ForwardScans \cup BackwardScans \cup {"quotedstrlen"}
    => /\ Len(ret.trace) = 0 \/ Len(ret.trace) <= IterBound
       /\ \A k \in 1..(Len(ret.trace) - 1) : ret.trace[k + 1] >= ret.trace[k] + 1
       /\ ret.op = "skip_quote_to"
            => /\ \A k \in 1..Len(ret.quoted) :
                     /\ ret.quoted[k][2] >= 1
                     /\ ret.quoted[k][1] + ret.quoted[k][2] <= FwdBound
               /\ Len(ret.trace) > 0 => ret.rc <= args.pos + FwdBound

\* A quote-aware scan that measured a closed run and then an unterminated
\* one, and ended at the bound.
C16_Witness ==
    /\ ret.op = "skip_quote_to"
    /\ Len(ret.quoted) = 2
    /\ ret.quoted[1][2] >= 2
    /\ ret.quoted[2][2] = 1
    /\ ret.rc = args.pos + FwdBound

====
